---- MODULE Spec2Model ----
(***************************************************************************)
(* The parser combinators of src/src/lib.rs as an abstract machine.        *)
(*                                                                         *)
(* A parser is a tree of combinator values; `parse` is recursive descent.  *)
(* The machine makes the recursion explicit: `stack` holds one frame per   *)
(* active call of `parse`, every action is one step of one `parse` body,   *)
(* and a call that returns leaves its result in `last`.  A caller runs the *)
(* parsers of `jobs`, one after the other, on clones of the same input.    *)
(*                                                                         *)
(* Text is modelled as Rust stores it: a str is its UTF-8 bytes, offsets   *)
(* are byte offsets, characters are code points.                           *)
(***************************************************************************)
EXTENDS Integers, Sequences, FiniteSets, TLC

VARIABLES jobs, input, stack, last, results, status

vars == <<jobs, input, stack, last, results, status>>

(***************************************************************************)
(* Bounds of the model.                                                    *)
(***************************************************************************)
\* Longest input, in characters.
MaxLen == 3
\* Longest string literal, in characters.
MaxLit == 2
\* Largest minimum count given to a repetition.
MaxLimit == 2
\* Elements a Vec can hold before the allocator gives up.  A loop that ends
\* collects at most one element per input character, so only a loop that
\* never ends reaches it.
MaxVec == MaxLen + 1

\* 'a' (one byte in UTF-8) and U+00E9 (two bytes).
Alphabet == {97, 233}

(***************************************************************************)
(* Option and ParseResult.                                                 *)
(***************************************************************************)
None == [some |-> FALSE]
Some(v) == [some |-> TRUE, v |-> v]

Ok(g, o) == [ok |-> TRUE, pos |-> g, val |-> o]
Err == [ok |-> FALSE]

(***************************************************************************)
(* str: UTF-8 bytes.                                                       *)
(***************************************************************************)
len_utf8_one(c) == 1

len_utf8(c) ==
    IF c < 128 THEN 1 ELSE IF c < 2048 THEN 2 ELSE IF c < 65536 THEN 3 ELSE 4

\* The bytes of one character below U+0800.
EncodeChar(c) ==
    IF c < 128 THEN <<c>> ELSE <<192 + (c \div 64), 128 + (c % 64)>>

RECURSIVE Utf8(_)
Utf8(cs) ==
    IF Len(cs) = 0 THEN <<>> ELSE EncodeChar(cs[1]) \o Utf8(Tail(cs))

\* s.chars().nth(0)
nth0(s) ==
    IF Len(s) = 0 THEN None
    ELSE IF s[1] < 128 THEN Some(s[1])
    ELSE Some((s[1] - 192) * 64 + (s[2] - 128))

\* s.is_char_boundary(i): what the slice s[i..] asserts.
is_char_boundary(s, i) ==
    \/ i = 0
    \/ i = Len(s)
    \/ i < Len(s) /\ ~(s[i + 1] \in 128..191)

starts_with_any(s, t) == Len(s) >= Len(t)

starts_with(s, t) == Len(s) >= Len(t) /\ SubSeq(s, 1, Len(t)) = t

slice_to(s, n) == SubSeq(s, 1, n)

(***************************************************************************)
(* StrGenerator.                                                           *)
(***************************************************************************)
StrGenerator(s) == [st |-> s]

clone(g) == [st |-> g.st]

get(g) == g.st

forward_from_end(g, offset) ==
    StrGenerator(SubSeq(g.st, 1, Len(g.st) - offset))

forward(g, offset) == StrGenerator(SubSeq(g.st, offset + 1, Len(g.st)))

(***************************************************************************)
(* Parser values.                                                          *)
(***************************************************************************)
CharParser(c) == [kind |-> "Char", c |-> c]
StrParser(t) == [kind |-> "Str", t |-> t]
ConcatParser(l, r) == [kind |-> "Concat", l |-> l, r |-> r]
MaybeParser(p) == [kind |-> "Maybe", p |-> p]
RepeatParser(p, limit) == [kind |-> "Repeat", p |-> p, limit |-> limit]
MapParser(p, f) == [kind |-> "Map", p |-> p, f |-> f]
IgnoreLeftParser(l, r) == [kind |-> "IgnoreLeft", l |-> l, r |-> r]
IgnoreRightParser(l, r) == [kind |-> "IgnoreRight", l |-> l, r |-> r]
OrParser(l, r) == [kind |-> "Or", l |-> l, r |-> r]

\* The closures given to Map: |o| (o,) and |_| ().
Apply(f, o) == IF f = "tuple" THEN <<o>> ELSE <<>>

(***************************************************************************)
(* The call stack.                                                         *)
(***************************************************************************)
\* `input` is the binding the body rebinds; `arg` keeps the argument and
\* `kids` the calls the body made, for the properties below.
Frame(p, g) == [p |-> p, pc |-> "start", arg |-> g, input |-> g, kids |-> <<>>]

Top == stack[Len(stack)]

At(kind, pc) ==
    /\ status = "running"
    /\ Len(stack) > 0
    /\ Top.p.kind = kind
    /\ Top.pc = pc

\* The body goes on as frame f.
Step(f) ==
    /\ stack' = [stack EXCEPT ![Len(stack)] = f]
    /\ UNCHANGED <<jobs, input, last, results, status>>

\* The body, now frame f, calls child.parse(g).
Call(f, child, g) ==
    /\ stack' = Append([stack EXCEPT ![Len(stack)] = f], Frame(child, g))
    /\ UNCHANGED <<jobs, input, last, results, status>>

\* The body returns res to its caller.
Return(res) ==
    LET done == [p |-> Top.p, arg |-> Top.arg, res |-> res]
        rest == SubSeq(stack, 1, Len(stack) - 1)
    IN  /\ last' = [p |-> Top.p, arg |-> Top.arg, res |-> res, kids |-> Top.kids]
        /\ stack' = IF Len(rest) = 0 THEN rest
                    ELSE [rest EXCEPT ![Len(rest)].kids = Append(@, done)]
        /\ UNCHANGED <<jobs, input, results, status>>

\* A panic or an abort ends the process.
Die(how) ==
    /\ status' = how
    /\ UNCHANGED <<jobs, input, stack, last, results>>

(***************************************************************************)
(* impl Parser<I, char> for char                                           *)
(***************************************************************************)
char_matches_any(c, g) == nth0(get(g)).some

char_matches(c, g) ==
    LET first == nth0(get(g)) IN first.some /\ first.v = c

CharOk ==
    /\ At("Char", "start")
    /\ char_matches(Top.p.c, Top.input)
    /\ LET c == nth0(get(Top.input)).v
           size == len_utf8(c)
       IN  IF is_char_boundary(get(Top.input), size)
           THEN Return(Ok(forward(Top.input, size), c))
           ELSE Die("panicked")

CharErr ==
    /\ At("Char", "start")
    /\ ~char_matches(Top.p.c, Top.input)
    /\ Return(Err)

(***************************************************************************)
(* impl Parser<I, String> for &str                                         *)
(***************************************************************************)
StrOk ==
    /\ At("Str", "start")
    /\ starts_with(get(Top.input), Top.p.t)
    /\ LET size == Len(Top.p.t)
       IN  IF is_char_boundary(get(Top.input), size)
           THEN Return(Ok(forward(Top.input, size),
                          slice_to(get(Top.input), size)))
           ELSE Die("panicked")

StrErr ==
    /\ At("Str", "start")
    /\ ~starts_with(get(Top.input), Top.p.t)
    /\ Return(Err)

(***************************************************************************)
(* ConcatParser                                                            *)
(***************************************************************************)
ConcatCallL ==
    /\ At("Concat", "start")
    /\ Call([pc |-> "l"] @@ Top, Top.p.l, Top.input)

ConcatErrL ==
    /\ At("Concat", "l")
    /\ ~last.res.ok
    /\ Return(Err)

ConcatCallR_arg ==
    /\ At("Concat", "l")
    /\ last.res.ok
    /\ Call([pc |-> "r", input |-> last.res.pos, ans_a |-> last.res.val] @@ Top,
            Top.p.r, Top.arg)

ConcatCallR ==
    /\ At("Concat", "l")
    /\ last.res.ok
    /\ Call([pc |-> "r", input |-> last.res.pos, ans_a |-> last.res.val] @@ Top,
            Top.p.r, last.res.pos)

ConcatErrR ==
    /\ At("Concat", "r")
    /\ ~last.res.ok
    /\ Return(Err)

ConcatOk ==
    /\ At("Concat", "r")
    /\ last.res.ok
    /\ Return(Ok(last.res.pos, <<Top.ans_a, last.res.val>>))

(***************************************************************************)
(* MaybeParser                                                             *)
(***************************************************************************)
MaybeCall ==
    /\ At("Maybe", "start")
    /\ Call([pc |-> "p"] @@ Top, Top.p.p, Top.input)

MaybeOk ==
    /\ At("Maybe", "p")
    /\ last.res.ok
    /\ Return(Ok(last.res.pos, Some(last.res.val)))

MaybeErr_absent ==
    /\ At("Maybe", "p")
    /\ ~last.res.ok
    /\ Return(Ok(Top.input, None))

MaybeErr ==
    /\ At("Maybe", "p")
    /\ ~last.res.ok
    /\ Return(Err)

(***************************************************************************)
(* RepeatParser                                                            *)
(***************************************************************************)
RepeatInit ==
    /\ At("Repeat", "start")
    /\ Step([pc |-> "loop", vec |-> <<>>, pos |-> clone(Top.input)] @@ Top)

RepeatCall ==
    /\ At("Repeat", "loop")
    /\ Call([pc |-> "match"] @@ Top, Top.p.p, clone(Top.pos))

push_front(vec, r) == <<r>> \o vec

push(vec, r) == Append(vec, r)

RepeatPush ==
    /\ At("Repeat", "match")
    /\ last.res.ok
    /\ IF Len(Top.vec) < MaxVec
       THEN Step([pc |-> "loop", pos |-> last.res.pos,
                  vec |-> push(Top.vec, last.res.val)] @@ Top)
       ELSE Die("aborted")

RepeatBreak ==
    /\ At("Repeat", "match")
    /\ ~last.res.ok
    /\ Step([pc |-> "check"] @@ Top)

limit_exceeded(vec, limit) == Len(vec) > limit

limit_met(vec, limit) == Len(vec) >= limit

RepeatLimitOk ==
    /\ At("Repeat", "check")
    /\ Top.p.limit.some
    /\ limit_met(Top.vec, Top.p.limit.v)
    /\ Return(Ok(Top.pos, Top.vec))

RepeatLimitErr ==
    /\ At("Repeat", "check")
    /\ Top.p.limit.some
    /\ ~limit_met(Top.vec, Top.p.limit.v)
    /\ Return(Err)

RepeatNoLimit ==
    /\ At("Repeat", "check")
    /\ ~Top.p.limit.some
    /\ Return(Ok(Top.pos, Top.vec))

(***************************************************************************)
(* MapParser                                                               *)
(***************************************************************************)
MapCall ==
    /\ At("Map", "start")
    /\ Call([pc |-> "p"] @@ Top, Top.p.p, Top.input)

MapOk ==
    /\ At("Map", "p")
    /\ last.res.ok
    /\ Return(Ok(last.res.pos, Apply(Top.p.f, last.res.val)))

MapErr ==
    /\ At("Map", "p")
    /\ ~last.res.ok
    /\ Return(Err)

(***************************************************************************)
(* IgnoreLeftParser                                                        *)
(***************************************************************************)
IgnoreLeftCallL ==
    /\ At("IgnoreLeft", "start")
    /\ Call([pc |-> "l"] @@ Top, Top.p.l, Top.input)

IgnoreLeftErrL ==
    /\ At("IgnoreLeft", "l")
    /\ ~last.res.ok
    /\ Return(Err)

IgnoreLeftCallR ==
    /\ At("IgnoreLeft", "l")
    /\ last.res.ok
    /\ Call([pc |-> "r", input |-> last.res.pos, ans_a |-> last.res.val] @@ Top,
            Top.p.r, last.res.pos)

IgnoreLeftErrR ==
    /\ At("IgnoreLeft", "r")
    /\ ~last.res.ok
    /\ Return(Err)

IgnoreLeftOk_at_l ==
    /\ At("IgnoreLeft", "r")
    /\ last.res.ok
    /\ Return(Ok(Top.input, last.res.val))

IgnoreLeftOk ==
    /\ At("IgnoreLeft", "r")
    /\ last.res.ok
    /\ Return(Ok(last.res.pos, last.res.val))

(***************************************************************************)
(* IgnoreRightParser                                                       *)
(***************************************************************************)
IgnoreRightCallL ==
    /\ At("IgnoreRight", "start")
    /\ Call([pc |-> "l"] @@ Top, Top.p.l, Top.input)

IgnoreRightErrL ==
    /\ At("IgnoreRight", "l")
    /\ ~last.res.ok
    /\ Return(Err)

IgnoreRightCallR ==
    /\ At("IgnoreRight", "l")
    /\ last.res.ok
    /\ Call([pc |-> "r", input |-> last.res.pos, ans_a |-> last.res.val] @@ Top,
            Top.p.r, last.res.pos)

IgnoreRightErrR ==
    /\ At("IgnoreRight", "r")
    /\ ~last.res.ok
    /\ Return(Err)

IgnoreRightOk ==
    /\ At("IgnoreRight", "r")
    /\ last.res.ok
    /\ Return(Ok(last.res.pos, Top.ans_a))

(***************************************************************************)
(* OrParser                                                                *)
(***************************************************************************)
OrCallL ==
    /\ At("Or", "start")
    /\ Call([pc |-> "l"] @@ Top, Top.p.l, clone(Top.input))

OrOkL ==
    /\ At("Or", "l")
    /\ last.res.ok
    /\ Return(Ok(last.res.pos, last.res.val))

OrCallR_advanced ==
    /\ At("Or", "l")
    /\ ~last.res.ok
    /\ Call([pc |-> "r"] @@ Top, Top.p.r,
            IF Len(get(Top.input)) = 0 THEN Top.input
            ELSE forward(Top.input, len_utf8(nth0(get(Top.input)).v)))

OrCallR ==
    /\ At("Or", "l")
    /\ ~last.res.ok
    /\ Call([pc |-> "r"] @@ Top, Top.p.r, Top.input)

OrOkR ==
    /\ At("Or", "r")
    /\ last.res.ok
    /\ Return(Ok(last.res.pos, last.res.val))

OrErr ==
    /\ At("Or", "r")
    /\ ~last.res.ok
    /\ Return(Err)

(***************************************************************************)
(* The caller: each parser of `jobs` in turn, on a clone of the input.     *)
(***************************************************************************)
Invoke ==
    /\ status = "ready"
    /\ stack' = <<Frame(jobs[Len(results) + 1], clone(input))>>
    /\ status' = "running"
    /\ UNCHANGED <<jobs, input, last, results>>

Collect ==
    /\ status = "running"
    /\ Len(stack) = 0
    /\ results' = Append(results, last.res)
    /\ status' = IF Len(results') = Len(jobs) THEN "done" ELSE "ready"
    /\ UNCHANGED <<jobs, input, stack, last>>

(***************************************************************************)
(* The parsers and inputs explored.                                        *)
(***************************************************************************)
Strings(n) == UNION {[1..k -> Alphabet] : k \in 0..n}

Inputs == {StrGenerator(Utf8(s)) : s \in Strings(MaxLen)}

CharLits == {CharParser(c) : c \in Alphabet}
StrLits == {StrParser(Utf8(s)) : s \in Strings(MaxLit)}
Leaves == CharLits \cup StrLits
Limits == {None} \cup {Some(n) : n \in 0..MaxLimit}

\* Parsers of one output type each, so that Or is well typed.
CharPairs == {ConcatParser(l, r) : l \in CharLits, r \in CharLits}
CharAlts == {OrParser(l, r) : l \in CharLits, r \in CharLits}
CharReps == {RepeatParser(p, n) : p \in CharLits, n \in Limits}

Alternatives ==
    CharAlts
    \cup {OrParser(l, r) : l \in StrLits, r \in StrLits}
    \cup {OrParser(l, r) : l \in CharPairs, r \in CharPairs}
    \cup {OrParser(l, r) : l \in CharReps, r \in CharReps}

Repeatable ==
    Leaves \cup CharPairs \cup CharAlts
    \cup {MaybeParser(p) : p \in CharLits}
    \cup {MapParser(p, "tuple") : p \in CharLits}
    \cup {RepeatParser(p, n) : p \in CharLits, n \in {None, Some(1)}}

Single ==
    Alternatives
    \cup {MaybeParser(p) : p \in Leaves \cup CharPairs \cup CharReps}
    \cup {RepeatParser(p, n) : p \in Repeatable, n \in Limits}
    \cup {MapParser(p, f) : p \in Leaves \cup CharReps, f \in {"tuple", "unit"}}

Sequenced ==
    Leaves \cup CharAlts
    \cup {MaybeParser(p) : p \in CharLits}
    \cup {RepeatParser(p, n) : p \in CharLits, n \in {None, Some(1)}}

JobLists ==
    {<<p>> : p \in Single}
    \cup {<<ConcatParser(l, r), IgnoreLeftParser(l, r), IgnoreRightParser(l, r)>> :
            l \in Sequenced, r \in Sequenced}

Init ==
    /\ jobs \in JobLists
    /\ input \in Inputs
    /\ stack = <<>>
    /\ last = [p |-> [kind |-> "none"], arg |-> input, res |-> Err, kids |-> <<>>]
    /\ results = <<>>
    /\ status = "ready"

Next ==
    \/ Invoke \/ Collect
    \/ CharOk \/ CharErr
    \/ StrOk \/ StrErr
    \/ ConcatCallL \/ ConcatErrL \/ ConcatCallR \/ ConcatErrR \/ ConcatOk
    \/ MaybeCall \/ MaybeOk \/ MaybeErr
    \/ RepeatInit \/ RepeatCall \/ RepeatPush \/ RepeatBreak
    \/ RepeatLimitOk \/ RepeatLimitErr \/ RepeatNoLimit
    \/ MapCall \/ MapOk \/ MapErr
    \/ IgnoreLeftCallL \/ IgnoreLeftErrL \/ IgnoreLeftCallR \/ IgnoreLeftErrR
    \/ IgnoreLeftOk
    \/ IgnoreRightCallL \/ IgnoreRightErrL \/ IgnoreRightCallR
    \/ IgnoreRightErrR \/ IgnoreRightOk
    \/ OrCallL \/ OrOkL \/ OrCallR \/ OrOkR \/ OrErr

Spec == Init /\ [][Next]_vars

\* Execution is synchronous and single-threaded: a step that can be taken is.
FairSpec == Spec /\ WF_vars(Next)

(***************************************************************************)
(* Vocabulary of the properties.  `last` is the call that returned most    *)
(* recently: its parser p, its argument arg, its result res and, in kids,  *)
(* the calls its body made, in order, each with its own p, arg and res.    *)
(***************************************************************************)
\* The characters of a UTF-8 byte string, read off the lead bytes.
RECURSIVE Chars(_)
Chars(s) ==
    IF Len(s) = 0 THEN <<>>
    ELSE IF s[1] < 128 THEN <<s[1]>> \o Chars(SubSeq(s, 2, Len(s)))
    ELSE <<(s[1] - 192) * 64 + (s[2] - 128)>> \o Chars(SubSeq(s, 3, Len(s)))

IsSuffix(s, t) == \E k \in 0..Len(t) : s = SubSeq(t, k + 1, Len(t))

IsPrefix(t, s) == \E k \in 0..Len(s) : s = t \o SubSeq(s, k + 1, Len(s))

SameResult(a, b) ==
    /\ a.ok = b.ok
    /\ a.ok => get(a.pos) = get(b.pos) /\ a.val = b.val

\* How many applications succeeded before the first one that failed.
Collected(kids) ==
    Cardinality({i \in DOMAIN kids : \A j \in 1..i : kids[j].res.ok})

\* No slice of the input is ever taken off a character boundary or out of range.
NoPanic == status # "panicked"

\* The allocator only gives up in a loop whose parser succeeds without consuming.
AbortIsLoop ==
    status = "aborted" =>
        /\ Top.p.kind = "Repeat"
        /\ last.res.ok
        /\ get(last.res.pos) = get(last.arg)

(***************************************************************************)
(* C1.  Or(L, R) is left-biased and backtracks: it calls L on its own      *)
(* position; if L succeeds it returns L's result and makes no other call;  *)
(* if L fails it calls R on a position with the view it was given itself   *)
(* and returns R's result, success or failure.                             *)
(***************************************************************************)
OrLeftBiasedBacktracks ==
    last.p.kind = "Or" =>
        LET k == last.kids IN
        /\ Len(k) >= 1
        /\ k[1].p = last.p.l
        /\ get(k[1].arg) = get(last.arg)
        /\ IF k[1].res.ok
           THEN Len(k) = 1 /\ SameResult(last.res, k[1].res)
           ELSE /\ Len(k) = 2
                /\ k[2].p = last.p.r
                /\ get(k[2].arg) = get(last.arg)
                /\ SameResult(last.res, k[2].res)

\* L = 'a' then U+00E9 consumed the first 'a' of "aa" before failing, and R
\* succeeded all the same.
OrBacktracked ==
    /\ last.p.kind = "Or"
    /\ last.p.l = ConcatParser(CharParser(97), CharParser(233))
    /\ get(last.arg) = <<97, 97>>
    /\ Len(last.kids) = 2
    /\ ~last.kids[1].res.ok
    /\ last.res.ok
    /\ Len(get(last.res.pos)) = 0

(***************************************************************************)
(* C2.  Concat(L, R) calls L on its position; if L fails it fails without  *)
(* calling R; otherwise it calls R once, on the position L returned, and   *)
(* succeeds exactly if R does, with R's position and the pair of outputs.  *)
(***************************************************************************)
ConcatSequences ==
    last.p.kind = "Concat" =>
        LET k == last.kids IN
        /\ Len(k) >= 1
        /\ k[1].p = last.p.l
        /\ get(k[1].arg) = get(last.arg)
        /\ IF ~k[1].res.ok
           THEN Len(k) = 1 /\ ~last.res.ok
           ELSE /\ Len(k) = 2
                /\ k[2].p = last.p.r
                /\ get(k[2].arg) = get(k[1].res.pos)
                /\ last.res.ok = k[2].res.ok
                /\ last.res.ok =>
                     /\ get(last.res.pos) = get(k[2].res.pos)
                     /\ Len(last.res.val) = 2
                     /\ last.res.val[1] = k[1].res.val
                     /\ last.res.val[2] = k[2].res.val

\* Both halves consumed input, so R's position differs from g and from L's.
ConcatBothConsumed ==
    /\ last.p.kind = "Concat"
    /\ last.res.ok
    /\ get(last.kids[1].res.pos) # get(last.arg)
    /\ get(last.res.pos) # get(last.kids[1].res.pos)

(***************************************************************************)
(* C3.  A Repeat that returns fails exactly if a minimum N is configured   *)
(* and fewer than N applications succeeded before the first failing one;   *)
(* so it succeeds with exactly N, and with no minimum or N = 0 it does not *)
(* fail.                                                                   *)
(***************************************************************************)
RepeatMinimum ==
    last.p.kind = "Repeat" =>
        LET n == Collected(last.kids)
            limit == last.p.limit
        IN  /\ ~last.res.ok <=> (limit.some /\ n < limit.v)
            /\ (limit.some /\ n = limit.v) => last.res.ok
            /\ (~limit.some \/ limit.v = 0) => last.res.ok

\* The minimum was met by the last successful application, not exceeded.
RepeatExactlyMinimum ==
    /\ last.p.kind = "Repeat"
    /\ last.p.limit.some
    /\ last.p.limit.v = MaxLimit
    /\ Collected(last.kids) = MaxLimit
    /\ last.res.ok

(***************************************************************************)
(* C4.  A Repeat that succeeds after k successful applications and one     *)
(* failing one outputs the k outputs in order; each application was made   *)
(* on the position the one before returned (the first on the starting      *)
(* position), and the result position is the one the k-th returned, or     *)
(* for k = 0 the starting position, with the empty sequence as output.     *)
(***************************************************************************)
RepeatCollects ==
    (last.p.kind = "Repeat" /\ last.res.ok) =>
        LET k == last.kids
            n == Len(k) - 1
        IN  /\ n >= 0
            /\ ~k[n + 1].res.ok
            /\ \A i \in 1..n : k[i].res.ok
            /\ \A i \in 1..(n + 1) :
                 /\ k[i].p = last.p.p
                 /\ get(k[i].arg) =
                      (IF i = 1 THEN get(last.arg) ELSE get(k[i - 1].res.pos))
            /\ Len(last.res.val) = n
            /\ \A i \in 1..n : last.res.val[i] = k[i].res.val
            /\ get(last.res.pos) =
                 (IF n = 0 THEN get(last.arg) ELSE get(k[n].res.pos))
            /\ n = 0 => last.res.val = <<>>

\* Two applications with different outputs: 'a' or U+00E9, repeated.
RepeatCollectedTwo ==
    /\ last.p.kind = "Repeat"
    /\ last.p.p.kind = "Or"
    /\ last.res.ok
    /\ Len(last.res.val) >= 2
    /\ last.res.val[1] # last.res.val[2]

(***************************************************************************)
(* C5.  On one position, IgnoreLeft(L, R) succeeds exactly if Concat(L, R) *)
(* does, at the same position and with the second component of Concat's    *)
(* output; IgnoreRight(L, R) likewise with the first component.            *)
(***************************************************************************)
IgnoreMatchesConcat ==
    \A i \in 1..Len(results) : \A j \in 1..Len(results) :
        (/\ jobs[i].kind = "Concat"
         /\ jobs[j].kind \in {"IgnoreLeft", "IgnoreRight"}
         /\ jobs[j].l = jobs[i].l
         /\ jobs[j].r = jobs[i].r) =>
            /\ results[j].ok = results[i].ok
            /\ results[j].ok =>
                 /\ get(results[j].pos) = get(results[i].pos)
                 /\ results[j].val =
                      results[i].val[IF jobs[j].kind = "IgnoreLeft" THEN 2 ELSE 1]

\* All three ran and succeeded, L and R being different characters.
IgnoreAllSucceeded ==
    /\ status = "done"
    /\ Len(results) = 3
    /\ \A i \in 1..3 : results[i].ok
    /\ jobs[1].l.kind = "Char"
    /\ jobs[1].r.kind = "Char"
    /\ jobs[1].l.c # jobs[1].r.c

(***************************************************************************)
(* C6.  Maybe(P) calls P once on its position; it fails if P fails, and if *)
(* P succeeds with (g', v) it succeeds with (g', Some(v)).                 *)
(***************************************************************************)
MaybePropagates ==
    last.p.kind = "Maybe" =>
        LET k == last.kids IN
        /\ Len(k) = 1
        /\ k[1].p = last.p.p
        /\ get(k[1].arg) = get(last.arg)
        /\ last.res.ok = k[1].res.ok
        /\ last.res.ok =>
             /\ get(last.res.pos) = get(k[1].res.pos)
             /\ last.res.val = Some(k[1].res.val)

\* The wrapped parser failed.
MaybeInnerFailed ==
    /\ last.p.kind = "Maybe"
    /\ Len(last.kids) = 1
    /\ ~last.kids[1].res.ok

(***************************************************************************)
(* C7.  The matcher for character c on view s succeeds exactly if s is not *)
(* empty and starts with c; then the output is c and the new view is s     *)
(* without its first character, shorter by the bytes that encode c.  It    *)
(* never stops short of an answer.                                         *)
(***************************************************************************)
CharLiteral ==
    /\ ~(status = "panicked" /\ Top.p.kind = "Char")
    /\ last.p.kind = "Char" =>
         LET s == Chars(get(last.arg))
             c == last.p.c
         IN  /\ last.res.ok <=> (Len(s) > 0 /\ s[1] = c)
             /\ last.res.ok =>
                  /\ last.res.val = c
                  /\ Chars(get(last.res.pos)) = Tail(s)
                  /\ Len(get(last.arg)) =
                       Len(get(last.res.pos)) + Len(EncodeChar(c))

\* A two-byte character matched, with input left after it.
CharMatchedTwoBytes ==
    /\ last.p.kind = "Char"
    /\ last.res.ok
    /\ last.p.c = 233
    /\ Len(get(last.res.pos)) > 0

(***************************************************************************)
(* C8.  The matcher for literal t on view s succeeds exactly if t is a     *)
(* prefix of s; then the output is t and s is the output followed by the   *)
(* new view.  The empty literal succeeds everywhere, with empty output and *)
(* the view unchanged.  It never stops short of an answer.                 *)
(***************************************************************************)
StrLiteral ==
    /\ ~(status = "panicked" /\ Top.p.kind = "Str")
    /\ last.p.kind = "Str" =>
         LET s == get(last.arg)
             t == last.p.t
         IN  /\ last.res.ok <=> IsPrefix(t, s)
             /\ last.res.ok =>
                  /\ last.res.val = t
                  /\ s = last.res.val \o get(last.res.pos)
             /\ Len(t) = 0 =>
                  /\ last.res.ok
                  /\ Len(last.res.val) = 0
                  /\ get(last.res.pos) = s

\* A literal of two characters, one of them two bytes long, matched a proper prefix.
StrMatchedPrefix ==
    /\ last.p.kind = "Str"
    /\ last.res.ok
    /\ Len(last.p.t) = 3
    /\ Len(get(last.res.pos)) > 0

(***************************************************************************)
(* C9.  Every invocation of a parser eventually returns: the caller gets a *)
(* Success or a Failure for each of its parsers.                           *)
(***************************************************************************)
Terminates == <>(status = "done")

(***************************************************************************)
(* C10.  Positions only move forward: the position a call returns is a     *)
(* suffix of the one it was given, every position handed to a child is a   *)
(* suffix of its parent's, and all of them are suffixes of the input.      *)
(***************************************************************************)
PositionsMoveForward ==
    /\ (last.p.kind # "none" /\ last.res.ok) =>
          IsSuffix(get(last.res.pos), get(last.arg))
    /\ \A i \in 1..Len(last.kids) :
          IsSuffix(get(last.kids[i].arg), get(last.arg))
    /\ \A i \in 1..Len(stack) :
          /\ IsSuffix(get(stack[i].arg), get(input))
          /\ i > 1 => IsSuffix(get(stack[i].arg), get(stack[i - 1].arg))
    /\ \A i \in 1..Len(results) :
          results[i].ok => IsSuffix(get(results[i].pos), get(input))

\* A call two levels down, given an advanced position, advanced it further.
AdvancedInside ==
    /\ Len(stack) >= 2
    /\ last.p.kind # "none"
    /\ last.res.ok
    /\ get(last.arg) # get(input)
    /\ get(last.res.pos) # get(last.arg)

====
